---- MODULE Spec2Model ----
(***************************************************************************)
(* Multi-PVS data collector (src/Parser-collector.py).                     *)
(*                                                                         *)
(* One task per configured source runs process_pvs: login, paginated       *)
(* crawl of today's shipments, concurrent detail fetches, grouping by      *)
(* arrival time, aggregation, report rendering and persistence.  The main  *)
(* thread collects one message per task and sends them.                    *)
(*                                                                         *)
(* Subscription bot (src/tg-bot.py).                                       *)
(*                                                                         *)
(* Whitelisted chats subscribe to (location, hourly slot) pairs through    *)
(* commands and inline-button callbacks; once an hour a monitor polls the  *)
(* report table and sends each subscribed chat its locations' reports.     *)
(*                                                                         *)
(* Times are whole seconds since today's midnight.  A cell text is a       *)
(* record [k, v]: k = "ts" is a well-formed "YYYY-MM-DD HH:MM:SS" text of  *)
(* second v, k = "dash" is the placeholder "-", k = "bad" is any other     *)
(* text.                                                                   *)
(***************************************************************************)
EXTENDS Integers, Sequences, FiniteSets, TLC

VARIABLES
    pvs_list,         \* PVS_IDENTIFIERS, the configured sources (one task each)
    pc,               \* per task: where process_pvs stands
    page,             \* per task: the listing page counter
    all_shipments,    \* per task: rows collected by the crawl, in crawl order
    valid_shipments,  \* per task: the sorted (then enriched) shipments
    futures,          \* per task: finished detail fetch -> what fetch_details returned
    yielded,          \* per task: the detail fetches the pipeline thread has collected
    details_map,      \* per task: shipment id -> details of the last collected fetch
    groups,           \* per task: the groups, in output order
    idx,              \* per task: enumerate() position of the report loop
    lines,            \* per task: the report blocks rendered so far
    saved,            \* per task: the calls of save_group_to_db, in call order
    result,           \* per task: the value process_pvs returned
    reqs,             \* per task: requests issued (login, list, detail), how the login and
                      \* the last listing request ended, rows of today dropped by the crawl
    db,               \* rows inserted into the shipments table (a set; task is the inserting task)
    all_messages,     \* the main thread's collected messages
    collected,        \* the tasks in the order as_completed yielded their futures
    completed,        \* the tasks in the order their futures finished
    main,             \* the main thread: before or inside the as_completed loop
    sent_count,       \* messages handed to send_telegram_message so far
    whitelist,        \* bot: the chat ids of the user_whitelist table
    user_data,        \* bot: per user, context.user_data["selected_loc"]
    user_subscriptions, \* bot: the rows of the user_subscriptions table
    reply,            \* bot: the last message a handler sent or edited
    keyboards,        \* bot: the (chat, kind) inline keyboards the bot has shown
    selections,       \* bot, history: the (chat, location) selections accepted
    inserts,          \* bot, history: the inserts executed, with the facts at that time
    updates,          \* bot: updates and whitelist edits handled so far
    data_reports,     \* bot: the locations with a report row of the monitored hour
    wall,             \* bot: the wall clock within the hour, in polling intervals
    mon,              \* bot: the monitor task of the hour
    delivered         \* bot: the (chat, location) reports the monitor sent, in order

pipevars == <<pvs_list, pc, page, all_shipments, valid_shipments, futures, yielded,
              details_map, groups, idx, lines, saved, result, reqs, db, all_messages,
              collected, completed, main, sent_count>>
handlervars == <<whitelist, user_data, user_subscriptions, reply, keyboards,
                 selections, inserts, updates>>
monvars == <<data_reports, wall, mon, delivered>>
botvars == <<handlervars, monvars>>
vars == <<pipevars, botvars>>

----------------------------------------------------------------------------
(* Bounds of the model *)

MaxSources == 2
MaxShipments == 3
MaxPages == 3
MaxFetches == 6
MaxUpdates == 7
MaxTicks == 3

(* Program constants *)

HOUR == 3600
NIGHT_END_HOUR == 8
SHORT_PAGE == 20
DETAIL_WORKERS == 5
SOURCE_WORKERS == 15
SLOT_FIRST_HOUR == 6
SLOT_END_HOUR == 22

----------------------------------------------------------------------------
(* Cell texts and parsing *)

None == [ok |-> FALSE, v |-> 0]
Some(n) == [ok |-> TRUE, v |-> n]

Ts(n) == [k |-> "ts", v |-> n]
Dash == [k |-> "dash", v |-> 0]
Bad == [k |-> "bad", v |-> 0]

\* parse_datetime: strptime of the fixed pattern, None on any failure.
parse_datetime(text) ==
    IF text.k = "ts" THEN Some(text.v) ELSE None

\* datetime.hour of a time of today.
HourOf(t) == t \div HOUR

Tasks == 1..Len(pvs_list)

ZeroDetails == [sent |-> 0, received |-> 0, excess |-> 0]
NoDetails == [sent |-> -1, received |-> -1, excess |-> -1]
NoUrl == "none"
PLACEHOLDER_ID == "-"

----------------------------------------------------------------------------
(* Sorting: list.sort / sorted are stable *)

\* Insert x, the element that followed `sorted` in the original list, keeping
\* the ascending order of created_dt and the original order of equal keys.
InsertByCreated(sorted, x) ==
    LET k == Cardinality({i \in 1..Len(sorted) : sorted[i].created_dt <= x.created_dt})
    IN SubSeq(sorted, 1, k) \o <<x>> \o SubSeq(sorted, k + 1, Len(sorted))

RECURSIVE SortByCreated(_)
\* sort(key=lambda x: x["created_dt"])
SortByCreated(s) ==
    IF s = <<>> THEN <<>>
    ELSE InsertByCreated(SortByCreated(SubSeq(s, 1, Len(s) - 1)), s[Len(s)])

\* The sort key of a group: the creation time of its last member.
GroupKey(g) == g[Len(g)].created_dt

\* Mutant: the final sort without reverse=True.
InsertGroupAsc(sorted, g) ==
    LET k == Cardinality({i \in 1..Len(sorted) : GroupKey(sorted[i]) <= GroupKey(g)})
    IN SubSeq(sorted, 1, k) \o <<g>> \o SubSeq(sorted, k + 1, Len(sorted))

InsertGroupDesc(sorted, g) ==
    LET k == Cardinality({i \in 1..Len(sorted) : GroupKey(sorted[i]) >= GroupKey(g)})
    IN SubSeq(sorted, 1, k) \o <<g>> \o SubSeq(sorted, k + 1, Len(sorted))

RECURSIVE SortGroups(_)
\* groups.sort(key=lambda g: g[-1]["created_dt"], reverse=True)
SortGroups(gs) ==
    IF gs = <<>> THEN <<>>
    ELSE InsertGroupDesc(SortGroups(SubSeq(gs, 1, Len(gs) - 1)), gs[Len(gs)])

----------------------------------------------------------------------------
(* Grouping: night bucket and day runs *)

\* Mutant: the night bucket taken up to and including hour 8.
IsNightInclusive(s) == HourOf(s.created_dt) <= NIGHT_END_HOUR

IsNight(s) == HourOf(s.created_dt) < NIGHT_END_HOUR
IsDay(s) == HourOf(s.created_dt) >= NIGHT_END_HOUR

NightBucket(valid) == SelectSeq(valid, IsNight)
DayBucket(valid) == SelectSeq(valid, IsDay)

\* Mutant: the one-hour bound taken as exclusive.
JoinsRunStrict(prev, next) == next.created_dt - prev.created_dt < HOUR

\* The test of the day scan: day[i] joins the current run.
JoinsRun(prev, next) == next.created_dt - prev.created_dt <= HOUR

RECURSIVE DayScanDropsLast(_, _, _, _)
\* Mutant: the run still open when the loop ends is not appended.
DayScanDropsLast(day, i, current, acc) ==
    IF i > Len(day) THEN acc
    ELSE IF JoinsRun(current[Len(current)], day[i])
         THEN DayScanDropsLast(day, i + 1, Append(current, day[i]), acc)
         ELSE DayScanDropsLast(day, i + 1, <<day[i]>>, Append(acc, current))

RECURSIVE DayScan(_, _, _, _)
\* The loop over day[1:], with the runs closed so far and the current run;
\* the current run is appended when the loop ends.
DayScan(day, i, current, acc) ==
    IF i > Len(day) THEN Append(acc, current)
    ELSE IF JoinsRun(current[Len(current)], day[i])
         THEN DayScan(day, i + 1, Append(current, day[i]), acc)
         ELSE DayScan(day, i + 1, <<day[i]>>, Append(acc, current))

DayRuns(day) ==
    IF day = <<>> THEN <<>> ELSE DayScan(day, 2, <<day[1]>>, <<>>)

\* Mutant: the night bucket scanned into runs like the day bucket.
BuildGroupsNightRuns(valid) ==
    DayRuns(SortByCreated(NightBucket(valid))) \o DayRuns(DayBucket(valid))

\* The groups list before the final sort.
BuildGroups(valid) ==
    LET night == NightBucket(valid)
        day == DayBucket(valid)
    IN (IF night # <<>> THEN <<SortByCreated(night)>> ELSE <<>>) \o DayRuns(day)

GroupShipmentsOf(valid) == SortGroups(BuildGroups(valid))

----------------------------------------------------------------------------
(* Aggregation of one group: the body of the report loop *)

RECURSIVE SumOf(_, _)
\* sum(f(s) for s in group), f given as a sequence of integers
SumOf(ns, i) == IF i > Len(ns) THEN 0 ELSE ns[i] + SumOf(ns, i + 1)

Statuses(group) == [i \in 1..Len(group) |-> group[i].status]

\* Mutant: residual pending members keep the group pending.
GroupStatusAnyPending(statuses) ==
    IF \E i \in 1..Len(statuses) : statuses[i] = "in_progress" THEN "in_progress"
    ELSE IF \E i \in 1..Len(statuses) : statuses[i] = "pending" THEN "pending"
    ELSE "closed"

\* The status precedence of the report loop.
GroupStatus(statuses) ==
    IF \E i \in 1..Len(statuses) : statuses[i] = "in_progress" THEN "in_progress"
    ELSE IF \A i \in 1..Len(statuses) : statuses[i] = "pending" THEN "pending"
    ELSE "closed"

HasStart(s) == s.unload_started_at # Dash
HasClose(s) == s.closed_at # Dash

\* [parse_datetime(s["unload_started_at"]) for s in group if ... != "-"]
StartTimes(group) ==
    LET withStart == SelectSeq(group, HasStart)
    IN [i \in 1..Len(withStart) |-> parse_datetime(withStart[i].unload_started_at)]

\* [parse_datetime(g["closed_at"]) for g in group if g["closed_at"] != "-"]
CloseTimes(group) ==
    LET withClose == SelectSeq(group, HasClose)
    IN [i \in 1..Len(withClose) |-> parse_datetime(withClose[i].closed_at)]

\* min()/max() of a list holding a None compare None with another element and
\* raise TypeError; with a single element nothing is compared.
CompareRaises(ts) == Len(ts) >= 2 /\ \E i \in 1..Len(ts) : ~ts[i].ok

MinOf(ts) ==
    IF Len(ts) = 1 THEN ts[1]
    ELSE Some(CHOOSE m \in {ts[i].v : i \in 1..Len(ts)} :
                 \A i \in 1..Len(ts) : m <= ts[i].v)

MaxOf(ts) ==
    IF Len(ts) = 1 THEN ts[1]
    ELSE Some(CHOOSE m \in {ts[i].v : i \in 1..Len(ts)} :
                 \A i \in 1..Len(ts) : m >= ts[i].v)

\* earliest_start = min(start_times) if start_times else None
EarliestStart(group) ==
    IF StartTimes(group) = <<>> THEN None ELSE MinOf(StartTimes(group))

\* latest_close: computed in the closed branch only.
LatestClose(group) ==
    IF GroupStatus(Statuses(group)) # "closed" THEN None
    ELSE IF CloseTimes(group) = <<>> THEN None
    ELSE MaxOf(CloseTimes(group))

\* The report loop raises (and process_pvs returns a critical error) when
\* min or max meets a None among two or more parsed texts.
AggregateRaises(group) ==
    \/ CompareRaises(StartTimes(group))
    \/ /\ GroupStatus(Statuses(group)) = "closed"
       /\ CompareRaises(CloseTimes(group))

\* Mutant: the duration taken whenever an earliest start exists.
DurationSecondsAnyStart(group) ==
    LET es == EarliestStart(group)
        lc == LatestClose(group)
    IN IF es.ok THEN lc.v - es.v ELSE 0

\* duration_seconds handed to save_group_to_db.
DurationSeconds(group) ==
    LET es == EarliestStart(group)
        lc == LatestClose(group)
    IN IF GroupStatus(Statuses(group)) = "closed" /\ es.ok /\ lc.ok
       THEN lc.v - es.v
       ELSE 0

\* Mutant: the rendered duration always counted up to the wall clock.
DurationShownElapsed(group, now) ==
    LET es == EarliestStart(group)
    IN IF es.ok THEN now - es.v ELSE 0

\* The timedelta rendered as "Unload duration", in seconds.
DurationShown(group, now) ==
    LET es == EarliestStart(group)
        lc == LatestClose(group)
    IN IF GroupStatus(Statuses(group)) = "closed" /\ es.ok /\ lc.ok
       THEN lc.v - es.v
       ELSE IF es.ok THEN now - es.v ELSE 0

\* Mutant: the sent total summed over the wrong key.
TotalSentOverReceived(group) == SumOf([i \in 1..Len(group) |-> group[i].received], 1)

TotalSent(group) == SumOf([i \in 1..Len(group) |-> group[i].sent], 1)
TotalReceived(group) == SumOf([i \in 1..Len(group) |-> group[i].received], 1)
TotalExcess(group) == SumOf([i \in 1..Len(group) |-> group[i].excess], 1)

MinCreated(group) ==
    CHOOSE m \in {group[i].created_dt : i \in 1..Len(group)} :
        \A i \in 1..Len(group) : m <= group[i].created_dt

MaxCreated(group) ==
    CHOOSE m \in {group[i].created_dt : i \in 1..Len(group)} :
        \A i \in 1..Len(group) : m >= group[i].created_dt

\* strftime("%H:%M"): the minute of the day.
HourMinute(t) == t \div 60

\* One block of the report, as the fields it prints.
ReportBlock(i, group, now) ==
    [idx |-> i,
     first_created |-> HourMinute(MinCreated(group)),
     last_created |-> HourMinute(MaxCreated(group)),
     closed_at |-> LatestClose(group),
     unload_started |-> EarliestStart(group),
     duration |-> DurationShown(group, now),
     status |-> GroupStatus(Statuses(group)),
     boxes |-> Len(group),
     sent |-> TotalSent(group),
     received |-> TotalReceived(group),
     excess |-> TotalExcess(group)]

----------------------------------------------------------------------------
(* save_group_to_db *)

\* min(t for t in start_times if t): ValueError when start_times holds only
\* None; the except clause then skips the insert.
DbTimesRaise(ts) == ts # <<>> /\ \A i \in 1..Len(ts) : ~ts[i].ok

DbPick(ts, wantMax) ==
    LET good == {ts[i].v : i \in {j \in 1..Len(ts) : ts[j].ok}}
    IN IF ts = <<>> THEN None
       ELSE Some(CHOOSE m \in good :
                    \A x \in good : IF wantMax THEN m >= x ELSE m <= x)

DbAllClosed(group) == \A i \in 1..Len(group) : group[i].status = "closed"

SaveRaises(group) ==
    \/ DbTimesRaise(StartTimes(group))
    \/ DbAllClosed(group) /\ DbTimesRaise(CloseTimes(group))

DbStatus(group) ==
    LET statuses == Statuses(group)
    IN IF \E i \in 1..Len(statuses) : statuses[i] = "in_progress" THEN "in_progress"
       ELSE IF \A i \in 1..Len(statuses) : statuses[i] = "pending" THEN "pending"
       ELSE "closed"

\* The row of the INSERT.
DbRow(task, pvs_name, group, group_index, count, unload_duration_seconds) ==
    [task |-> task,
     pvs_name |-> pvs_name,
     group_index |-> group_index,
     created_at |-> MinCreated(group),
     unload_started_at |-> DbPick(StartTimes(group), FALSE),
     closed_at |-> IF DbAllClosed(group) THEN DbPick(CloseTimes(group), TRUE) ELSE None,
     status |-> DbStatus(group),
     sent |-> TotalSent(group),
     received |-> TotalReceived(group),
     excess |-> TotalExcess(group),
     boxes_count |-> count,
     unload_duration_seconds |-> unload_duration_seconds]

----------------------------------------------------------------------------
(* process_pvs: login *)

NoResult == [kind |-> "none", text |-> "", lines |-> <<>>]
ErrorResult(text) == [kind |-> "error", text |-> text, lines |-> <<>>]
ReportResult(blocks) == [kind |-> "report", text |-> "", lines |-> blocks]

NoReqs == [login |-> 0, auth |-> "none", list |-> 0, last |-> "none", dropped |-> 0,
           detail |-> 0]

\* The outer pool runs the SOURCE_WORKERS earliest-submitted unfinished tasks.
TaskRunning(s) ==
    Cardinality({t \in 1..(s - 1) : pc[t] # "returned"}) < SOURCE_WORKERS

\* Mutant: an error return of one task ends every task with that error.
ReturnsAbortsAll(s, res) ==
    IF res.kind = "error"
    THEN /\ pc' = [t \in Tasks |-> "returned"]
         /\ result' = [t \in Tasks |-> IF pc[t] = "returned" THEN result[t] ELSE res]
         /\ completed' = Append(completed, s)
    ELSE /\ pc' = [pc EXCEPT ![s] = "returned"]
         /\ result' = [result EXCEPT ![s] = res]
         /\ completed' = Append(completed, s)

\* A return statement of process_pvs (or its outer except clause); the
\* task's future finishes.
Returns(s, res) ==
    /\ pc' = [pc EXCEPT ![s] = "returned"]
    /\ result' = [result EXCEPT ![s] = res]
    /\ completed' = Append(completed, s)

\* Mutant: the response to the credential post is not checked.
LoginUnchecked(s, outcome) ==
    /\ pc[s] = "login"
    /\ reqs' = [reqs EXCEPT ![s].login = IF outcome \in {"unreachable", "exception"} THEN 1 ELSE 2,
                             ![s].auth = outcome]
    /\ IF outcome \in {"ok", "rejected"}
       THEN /\ pc' = [pc EXCEPT ![s] = "crawl"]
            /\ page' = [page EXCEPT ![s] = 1]
            /\ UNCHANGED <<result, completed>>
       ELSE /\ pc' = [pc EXCEPT ![s] = "returned"]
            /\ result' = [result EXCEPT ![s] = ErrorResult("Critical error")]
            /\ completed' = Append(completed, s)
            /\ UNCHANGED page
    /\ UNCHANGED <<pvs_list, all_shipments, valid_shipments, futures, yielded,
                   details_map, groups, idx, lines, saved, db, all_messages,
                   collected, main, sent_count>>
    /\ UNCHANGED botvars

\* The login page request and the credential post.  outcome: "unreachable"
\* (status # 200), "exception" (a request raises), "rejected" (the form
\* markers are still in the response), "ok".
Login(s, outcome) ==
    /\ pc[s] = "login"
    /\ TaskRunning(s)
    /\ reqs' = [reqs EXCEPT ![s].login =
                                 IF outcome \in {"unreachable", "exception"} THEN 1 ELSE 2,
                             ![s].auth = outcome]
    /\ IF outcome = "ok"
       THEN /\ pc' = [pc EXCEPT ![s] = "crawl"]
            /\ page' = [page EXCEPT ![s] = 1]
            /\ UNCHANGED <<result, completed>>
       ELSE /\ Returns(s, ErrorResult(
                    CASE outcome = "unreachable" -> "Login page unreachable"
                      [] outcome = "rejected" -> "Login failed"
                      [] OTHER -> "Critical error"))
            /\ UNCHANGED page
    /\ UNCHANGED <<pvs_list, all_shipments, valid_shipments, futures, yielded,
                   details_map, groups, idx, lines, saved, db, all_messages,
                   collected, main, sent_count>>
    /\ UNCHANGED botvars

----------------------------------------------------------------------------
(* process_pvs: the crawl loop *)

\* The dict appended for an accepted row; uid stands for the identity of the
\* dict object.
ShipmentOf(row, uid) ==
    [uid |-> uid,
     id |-> row.id,
     created_dt |-> parse_datetime(row.created).v,
     unload_started_at |-> row.unload,
     closed_at |-> IF row.status = "closed" THEN row.closed_cell ELSE Dash,
     status |-> row.status,
     detail_url |-> row.detail_url,
     sent |-> NoDetails.sent,
     received |-> NoDetails.received,
     excess |-> NoDetails.excess]

\* The result of the row loop: the shipments list after it, the rows of today
\* it dropped, and whether a row raised.
Scanned(acc, dropped, raised) ==
    [shipments |-> acc, dropped |-> dropped, raised |-> raised]

RECURSIVE ScanRows(_, _, _, _)
\* The loop over the rows of today of one page.  A row lacking a cell raises,
\* which ends the loop at once; a row whose creation text does not parse is
\* skipped.
ScanRows(rows, i, acc, dropped) ==
    IF i > Len(rows) THEN Scanned(acc, dropped, FALSE)
    ELSE IF rows[i].broken THEN Scanned(acc, dropped, TRUE)
    ELSE IF ~parse_datetime(rows[i].created).ok THEN ScanRows(rows, i + 1, acc, dropped + 1)
    ELSE ScanRows(rows, i + 1, Append(acc, ShipmentOf(rows[i], Len(acc) + 1)), dropped)

\* Mutant: a failing request for a later page is skipped over.
CrawlContinuesPastFailure(p, resp, before, scan) ==
    \/ ~resp.ok /\ p > 1
    \/ /\ resp.ok
       /\ resp.len > 0
       /\ ~scan.raised
       /\ ~(Len(scan.shipments) = Len(before) /\ p > 1)
       /\ resp.len >= SHORT_PAGE

\* Mutant: the test for a later page without a new row is left out.
CrawlContinuesPastStalePage(p, resp, before, scan) ==
    /\ resp.ok
    /\ resp.len > 0
    /\ ~scan.raised
    /\ resp.len >= SHORT_PAGE

\* Whether the while loop goes on to the next page after this response.
CrawlContinues(p, resp, before, scan) ==
    /\ resp.ok
    /\ resp.len > 0
    /\ ~scan.raised
    /\ ~(Len(scan.shipments) = Len(before) /\ p > 1)
    /\ resp.len >= SHORT_PAGE

\* How a listing request ended: "failed" (status # 200 or the request
\* raised), "raised" (a row raised), "ok".
ListingOutcome(resp, scan) ==
    IF ~resp.ok THEN "failed" ELSE IF scan.raised THEN "raised" ELSE "ok"

\* One listing page request and the processing of its rows; when the loop
\* ends, the code up to the submission of the detail fetches.
FetchPage(s, resp) ==
    /\ pc[s] = "crawl"
    /\ LET scan == IF resp.ok /\ resp.len > 0
                   THEN ScanRows(resp.rows, 1, all_shipments[s], 0)
                   ELSE Scanned(all_shipments[s], 0, FALSE)
           goesOn == CrawlContinues(page[s], resp, all_shipments[s], scan)
       IN /\ goesOn => page[s] < MaxPages
          /\ reqs' = [reqs EXCEPT ![s].list = @ + 1,
                                   ![s].last = ListingOutcome(resp, scan),
                                   ![s].dropped = @ + scan.dropped]
          /\ all_shipments' = [all_shipments EXCEPT ![s] = scan.shipments]
          /\ IF goesOn
             THEN /\ page' = [page EXCEPT ![s] = @ + 1]
                  /\ UNCHANGED <<pc, result, completed, valid_shipments>>
             ELSE IF scan.shipments = <<>>
             THEN /\ Returns(s, ErrorResult("No shipments found for today"))
                  /\ UNCHANGED <<page, valid_shipments>>
             ELSE /\ pc' = [pc EXCEPT ![s] = "fetch"]
                  /\ valid_shipments' =
                        [valid_shipments EXCEPT ![s] = SortByCreated(scan.shipments)]
                  /\ UNCHANGED <<page, result, completed>>
    /\ UNCHANGED <<pvs_list, futures, yielded, details_map, groups, idx, lines,
                   saved, db, all_messages, collected, main, sent_count>>
    /\ UNCHANGED botvars

----------------------------------------------------------------------------
(* process_pvs: detail fetches *)

\* The fetches whose future has finished.
Fetched(s) == DOMAIN futures[s]

\* Mutant: a pool without a worker limit, every unfinished fetch runs.
InFlightUnbounded(s) ==
    {i \in 1..Len(valid_shipments[s]) : i \notin Fetched(s)}

\* The inner pool runs the DETAIL_WORKERS earliest-submitted unfinished fetches.
InFlight(s) ==
    {i \in 1..Len(valid_shipments[s]) :
        /\ i \notin Fetched(s)
        /\ Cardinality({j \in 1..(i - 1) : j \notin Fetched(s)}) < DETAIL_WORKERS}

\* get_details_from_detail_page returned None (status # 200, no metrics
\* section, an exception) or there was no detail reference to fetch.
FetchFailed(shipment, resp) == shipment.detail_url = NoUrl \/ ~resp.ok

\* fetch_details: zeros without a detail reference or when
\* get_details_from_detail_page returns None.
FetchDetails(shipment, resp) ==
    IF shipment.detail_url = NoUrl THEN ZeroDetails
    ELSE IF ~resp.ok THEN ZeroDetails
    ELSE resp.d

\* A worker thread of the inner pool: fetch_details returns and the future
\* finishes with (shipment id, details).
FinishFetch(s, i, resp) ==
    /\ pc[s] = "fetch"
    /\ i \in InFlight(s)
    /\ LET shipment == valid_shipments[s][i]
           details == FetchDetails(shipment, resp)
       IN /\ futures' = [futures EXCEPT ![s] =
                 (i :> [id |-> shipment.id, details |-> details,
                        failed |-> FetchFailed(shipment, resp)]) @@ @]
          /\ reqs' = [reqs EXCEPT ![s].detail =
                 IF shipment.detail_url = NoUrl THEN @ ELSE @ + 1]
    /\ UNCHANGED <<pvs_list, pc, page, all_shipments, valid_shipments, yielded,
                   details_map, groups, idx, lines, saved, result, db, all_messages,
                   collected, completed, main, sent_count>>
    /\ UNCHANGED botvars

\* The pipeline thread: as_completed yields a finished future and the loop
\* body stores its details under the shipment id.
CollectFetch(s, i) ==
    /\ pc[s] = "fetch"
    /\ i \in Fetched(s) \ yielded[s]
    /\ yielded' = [yielded EXCEPT ![s] = @ \cup {i}]
    /\ details_map' = [details_map EXCEPT ![s] =
           (futures[s][i].id :> futures[s][i].details) @@ @]
    /\ UNCHANGED <<pvs_list, pc, page, all_shipments, valid_shipments, futures,
                   groups, idx, lines, saved, result, reqs, db, all_messages,
                   collected, completed, main, sent_count>>
    /\ UNCHANGED botvars

\* shipment.update(details_map[shipment["id"]])
Enrich(shipment, dmap) ==
    [shipment EXCEPT !.sent = dmap[shipment.id].sent,
                     !.received = dmap[shipment.id].received,
                     !.excess = dmap[shipment.id].excess]

\* After the pool has shut down: enrichment, grouping and the final sort.
GroupShipments(s) ==
    /\ pc[s] = "fetch"
    /\ yielded[s] = 1..Len(valid_shipments[s])
    /\ LET enriched == [i \in 1..Len(valid_shipments[s]) |->
                           Enrich(valid_shipments[s][i], details_map[s])]
       IN /\ valid_shipments' = [valid_shipments EXCEPT ![s] = enriched]
          /\ groups' = [groups EXCEPT ![s] = GroupShipmentsOf(enriched)]
    /\ idx' = [idx EXCEPT ![s] = 1]
    /\ pc' = [pc EXCEPT ![s] = "report"]
    /\ UNCHANGED <<pvs_list, page, all_shipments, futures, yielded, details_map,
                   lines, saved, result, reqs, db, all_messages, collected,
                   completed, main, sent_count>>
    /\ UNCHANGED botvars

----------------------------------------------------------------------------
(* process_pvs: the report loop *)

\* The arguments of one call of save_group_to_db.
SaveCall(group, group_index, count, unload_duration_seconds) ==
    [group_index |-> group_index, count |-> count,
     unload_duration_seconds |-> unload_duration_seconds]

\* One iteration: aggregate the group, render its block, save it.  dbOk is
\* whether the database accepts the insert; now is the wall clock.
ReportGroup(s, dbOk, now) ==
    /\ pc[s] = "report"
    /\ idx[s] <= Len(groups[s])
    /\ LET group == groups[s][idx[s]]
       IN IF AggregateRaises(group)
          THEN /\ Returns(s, ErrorResult("Critical error"))
               /\ UNCHANGED <<idx, lines, saved, db>>
          ELSE /\ lines' = [lines EXCEPT ![s] =
                      Append(@, ReportBlock(idx[s], group, now))]
               /\ saved' = [saved EXCEPT ![s] =
                      Append(@, SaveCall(group, idx[s], Len(group),
                                         DurationSeconds(group)))]
               /\ db' = IF dbOk /\ ~SaveRaises(group)
                        THEN db \cup {DbRow(s, pvs_list[s], group, idx[s],
                                             Len(group), DurationSeconds(group))}
                        ELSE db
               /\ idx' = [idx EXCEPT ![s] = @ + 1]
               /\ UNCHANGED <<pc, result, completed>>
    /\ UNCHANGED <<pvs_list, page, all_shipments, valid_shipments, futures, yielded,
                   details_map, groups, reqs, all_messages, collected, main,
                   sent_count>>
    /\ UNCHANGED botvars

\* return {"type": "report", "message": "".join(lines)}
ReturnReport(s) ==
    /\ pc[s] = "report"
    /\ idx[s] > Len(groups[s])
    /\ Returns(s, ReportResult(lines[s]))
    /\ UNCHANGED <<pvs_list, page, all_shipments, valid_shipments, futures, yielded,
                   details_map, groups, idx, lines, saved, reqs, db, all_messages,
                   collected, main, sent_count>>
    /\ UNCHANGED botvars

----------------------------------------------------------------------------
(* The subscription bot (src/tg-bot.py): configuration and inputs *)

\* The default LOCATION_LIST.
LOCATIONS == {"location_a", "location_b", "location_c"}

\* f"{h}:00-{h+1}:00": a slot text, as the two hours it names.
SlotText(h) == <<h, h + 1>>

\* TIME_SLOTS = [f"{h}:00-{h+1}:00" for h in range(6, 22)]
TIME_SLOTS == {SlotText(h) : h \in SLOT_FIRST_HOUR..(SLOT_END_HOUR - 1)}

\* The users who write to the bot, and the chats they write in: each user's
\* private chat, whose chat id is the user's id, and a group chat.
Users == {"u1", "u2"}
GroupChats == {"g"}
Chats == Users \cup GroupChats
Senders == {p \in Users \X Chats : p[2] = p[1] \/ p[2] \in GroupChats}

\* context.user_data.get("selected_loc") of a user who has selected nothing.
NoLoc == "none"

\* The slot of callback data that names none, or not in the expected shape.
NoSlot == <<>>

\* query.data, as the operation its prefix names and the fields it carries.
Data(op, loc, slot) == [op |-> op, loc |-> loc, slot |-> slot]

NoReply == [chat |-> "none", text |-> "none"]
Reply(c, text) == [chat |-> c, text |-> text]

\* A row of user_subscriptions.
Subscription(c, loc, slot) == [chat_id |-> c, location_name |-> loc, time_slot |-> slot]

\* SELECT 1 FROM user_whitelist WHERE chat_id = %s
is_whitelisted(chat_id) == chat_id \in whitelist

\* SELECT ... FROM user_subscriptions WHERE chat_id = %s
SubscriptionsOf(chat_id) == {r \in user_subscriptions : r.chat_id = chat_id}

----------------------------------------------------------------------------
(* The bot: command handlers *)

\* An update from user u in chat c is taken from the queue.
Update(u, c) ==
    /\ updates < MaxUpdates
    /\ <<u, c>> \in Senders
    /\ updates' = updates + 1

\* The message now carries a keyboard of this kind ("none": plain text).
Shows(c, kind) ==
    keyboards' = IF kind = "none" THEN keyboards ELSE keyboards \cup {<<c, kind>>}

\* get_user_subscriptions_keyboard: the chat's subscriptions as buttons, or
\* the single "No subscriptions" button.
SubscriptionsKeyboard(c) ==
    IF SubscriptionsOf(c) = {} THEN "empty" ELSE "subscriptions"

\* A handler that at most replies.
OnlyReplies(c, text, kind) ==
    /\ reply' = IF text = "none" THEN reply ELSE Reply(c, text)
    /\ Shows(c, kind)
    /\ UNCHANGED <<whitelist, user_data, user_subscriptions, selections, inserts>>
    /\ UNCHANGED <<pipevars, monvars>>

start(u, c) ==
    /\ Update(u, c)
    /\ OnlyReplies(c, IF is_whitelisted(c) THEN "Welcome" ELSE "Access denied", "none")

help_command(u, c) ==
    /\ Update(u, c)
    /\ OnlyReplies(c, IF is_whitelisted(c) THEN "Available commands" ELSE "none", "none")

choose_location(u, c) ==
    /\ Update(u, c)
    /\ OnlyReplies(c, IF is_whitelisted(c) THEN "Select a location" ELSE "none",
                      IF is_whitelisted(c) THEN "locations" ELSE "none")

remove_location(u, c) ==
    /\ Update(u, c)
    /\ OnlyReplies(c, IF ~is_whitelisted(c) THEN "none"
                      ELSE IF SubscriptionsOf(c) = {}
                           THEN "You have no subscriptions to remove"
                           ELSE "Select subscription to remove",
                      IF is_whitelisted(c) /\ SubscriptionsOf(c) # {}
                      THEN "subscriptions" ELSE "none")

show_subscriptions(u, c) ==
    /\ Update(u, c)
    /\ OnlyReplies(c, IF ~is_whitelisted(c) THEN "none"
                      ELSE IF SubscriptionsOf(c) = {}
                           THEN "You have no subscriptions"
                           ELSE "Your subscriptions",
                      "none")

----------------------------------------------------------------------------
(* The bot: the callback handler *)

\* data.startswith("loc:"): the location is stored in the user's user_data.
CallbackLoc(u, c, data) ==
    IF data.loc \notin LOCATIONS
    THEN /\ reply' = Reply(c, "Invalid location")
         /\ UNCHANGED <<user_data, user_subscriptions, keyboards, selections, inserts>>
    ELSE /\ user_data' = [user_data EXCEPT ![u] = data.loc]
         /\ selections' = selections \cup {<<c, data.loc>>}
         /\ reply' = Reply(c, "Choose time slot")
         /\ Shows(c, "slots")
         /\ UNCHANGED <<user_subscriptions, inserts>>

\* data.startswith("time:"): INSERT ... ON CONFLICT DO NOTHING of the chat,
\* the location found in the user's user_data and the slot.
CallbackTime(u, c, data, dbOk) ==
    LET loc == user_data[u]
    IN IF loc = NoLoc \/ data.slot \notin TIME_SLOTS
       THEN /\ reply' = Reply(c, "Selection error")
            /\ UNCHANGED <<user_data, user_subscriptions, keyboards, selections, inserts>>
       ELSE IF dbOk
       THEN /\ user_subscriptions' =
                  user_subscriptions \cup {Subscription(c, loc, data.slot)}
            /\ inserts' = inserts \cup
                  {[row |-> Subscription(c, loc, data.slot),
                    whitelisted |-> c \in whitelist,
                    selected |-> <<c, loc>> \in selections]}
            /\ reply' = Reply(c, "Subscribed")
            /\ UNCHANGED <<user_data, keyboards, selections>>
       ELSE /\ reply' = Reply(c, "Failed to save subscription")
            /\ UNCHANGED <<user_data, user_subscriptions, keyboards, selections, inserts>>

\* data.startswith("rm_single:"): DELETE of the chat's row.
CallbackRemove(c, data, dbOk) ==
    IF data.slot = NoSlot
    THEN /\ reply' = Reply(c, "Invalid data")
         /\ UNCHANGED <<user_data, user_subscriptions, keyboards, selections, inserts>>
    ELSE IF dbOk
    THEN /\ user_subscriptions' =
               user_subscriptions \ {Subscription(c, data.loc, data.slot)}
         /\ reply' = Reply(c, "Unsubscribed")
         /\ UNCHANGED <<user_data, keyboards, selections, inserts>>
    ELSE /\ reply' = Reply(c, "Failed to remove subscription")
         /\ UNCHANGED <<user_data, user_subscriptions, keyboards, selections, inserts>>

\* A callback that only edits the message.
CallbackNotice(c, text, kind) ==
    /\ reply' = Reply(c, text)
    /\ Shows(c, kind)
    /\ UNCHANGED <<user_data, user_subscriptions, selections, inserts>>

handle_callback(u, c, data, dbOk) ==
    /\ Update(u, c)
    /\ IF ~is_whitelisted(c)
       THEN UNCHANGED <<user_data, user_subscriptions, reply, keyboards, selections,
                        inserts>>
       ELSE CASE data.op = "cancel" -> CallbackNotice(c, "Cancelled", "none")
              [] data.op = "no_subs" -> CallbackNotice(c, "No subscriptions", "none")
              [] data.op = "page_choose" ->
                     CallbackNotice(c, "Select location", "locations")
              [] data.op = "page_remove" ->
                     CallbackNotice(c, "Select subscription to remove",
                                    SubscriptionsKeyboard(c))
              [] data.op = "loc" -> CallbackLoc(u, c, data)
              [] data.op = "time" -> CallbackTime(u, c, data, dbOk)
              [] data.op = "rm_single" -> CallbackRemove(c, data, dbOk)
              [] OTHER -> UNCHANGED <<user_data, user_subscriptions, reply,
                                      keyboards, selections, inserts>>
    /\ UNCHANGED <<whitelist, pipevars, monvars>>

\* The administrator adds a chat to user_whitelist or removes it.
SetWhitelist(c, member) ==
    /\ updates < MaxUpdates
    /\ updates' = updates + 1
    /\ whitelist' = IF member THEN whitelist \cup {c} ELSE whitelist \ {c}
    /\ whitelist' # whitelist
    /\ UNCHANGED <<user_data, user_subscriptions, reply, keyboards, selections,
                   inserts>>
    /\ UNCHANGED <<pipevars, monvars>>

----------------------------------------------------------------------------
(* The bot: the hourly slot monitor *)

\* The last instant of the monitored hour (minute 59, second 59); the clock
\* counts polling intervals from the start of the hour, MaxTicks is any
\* time after the hour.
EndTime == MaxTicks - 1

MonitorIdle ==
    [pc |-> "idle", hour |-> 0, todo |-> {}, cur |-> "none", any_sent |-> FALSE,
     slept_at |-> 0, failed |-> {}]

\* SELECT DISTINCT chat_id, location_name ... WHERE time_slot = %s
SlotPairs(hour) ==
    {<<r.chat_id, r.location_name>> :
        r \in {x \in user_subscriptions : x.time_slot = SlotText(hour)}}

\* Time passes: while the monitor waits for a send or sleeps, not between
\* its start or wake-up and the test of the loop condition that follows.
Tick ==
    /\ wall < MaxTicks
    /\ mon.pc # "check"
    /\ wall' = wall + 1
    /\ UNCHANGED <<pipevars, handlervars, data_reports, mon, delivered>>

\* The collector side inserts a report row of this hour for a location.
ReportArrives(loc) ==
    /\ wall <= EndTime
    /\ loc \notin data_reports
    /\ data_reports' = data_reports \cup {loc}
    /\ UNCHANGED <<pipevars, handlervars, wall, mon, delivered>>

\* trigger_hourly_check: the monitor task is created for an hour of the
\* reporting day.
trigger_hourly_check(current_hour) ==
    /\ mon.pc = "idle"
    /\ wall <= EndTime
    /\ mon' = IF SLOT_FIRST_HOUR <= current_hour /\ current_hour < SLOT_END_HOUR
              THEN [mon EXCEPT !.pc = "check", !.hour = current_hour]
              ELSE [mon EXCEPT !.pc = "off", !.hour = current_hour]
    /\ UNCHANGED <<pipevars, handlervars, data_reports, wall, delivered>>

\* while datetime.now(LOCAL_TZ) <= end_time: read the subscriptions of the
\* slot; none ends the loop.
MonitorCheck ==
    /\ mon.pc = "check"
    /\ mon' = IF wall <= EndTime /\ SlotPairs(mon.hour) # {}
              THEN [mon EXCEPT !.pc = "pass", !.todo = SlotPairs(mon.hour),
                               !.cur = "none", !.any_sent = FALSE]
              ELSE [mon EXCEPT !.pc = "done"]
    /\ UNCHANGED <<pipevars, handlervars, data_reports, wall, delivered>>

\* One (chat, location) of the pass, chat by chat as user_loc_map groups
\* them: without report rows it is skipped, with rows the message is sent;
\* a send that raises is logged.
MonitorSend(c, loc, sendOk) ==
    /\ mon.pc = "pass"
    /\ <<c, loc>> \in mon.todo
    /\ (\E p \in mon.todo : p[1] = mon.cur) => c = mon.cur
    /\ LET rows == loc \in data_reports
       IN /\ delivered' = IF rows /\ sendOk
                          THEN Append(delivered, <<c, loc>>)
                          ELSE delivered
          /\ mon' = [mon EXCEPT !.todo = @ \ {<<c, loc>>},
                                !.cur = c,
                                !.any_sent = @ \/ (rows /\ sendOk),
                                !.failed = IF rows /\ ~sendOk
                                           THEN @ \cup {<<c, loc>>} ELSE @]
    /\ UNCHANGED <<pipevars, handlervars, data_reports, wall>>

\* After the pass: if any_sent: break, else await asyncio.sleep(30).
MonitorEndPass ==
    /\ mon.pc = "pass"
    /\ mon.todo = {}
    /\ mon' = IF mon.any_sent
              THEN [mon EXCEPT !.pc = "done"]
              ELSE [mon EXCEPT !.pc = "sleep", !.slept_at = wall]
    /\ UNCHANGED <<pipevars, handlervars, data_reports, wall, delivered>>

\* The sleep is over.
MonitorWake ==
    /\ mon.pc = "sleep"
    /\ wall > mon.slept_at \/ wall = MaxTicks
    /\ mon' = [mon EXCEPT !.pc = "check"]
    /\ UNCHANGED <<pipevars, handlervars, data_reports, wall, delivered>>

----------------------------------------------------------------------------
(* The bot: initial state *)

BotInitWith(subscriptions) ==
    /\ whitelist = {}
    /\ user_data = [u \in Users |-> NoLoc]
    /\ user_subscriptions \in subscriptions
    /\ reply = NoReply
    /\ keyboards = {}
    /\ selections = {}
    /\ inserts = {}
    /\ updates = 0
    /\ data_reports = {}
    /\ wall = 0
    /\ mon = MonitorIdle
    /\ delivered = <<>>

BotIdle == BotInitWith({{}})

----------------------------------------------------------------------------
(* __main__ *)

\* The message appended for a finished task.
MessageOf(pvs, res) ==
    [pvs |-> pvs, error |-> res.kind = "error", text |-> res.text, lines |-> res.lines]

\* The tasks whose future has been handled.
Collected == {collected[k] : k \in 1..Len(collected)}

\* The main thread enters the as_completed loop: the futures already finished
\* at that moment are put aside as a set, the others get a waiter.
EnterAsCompleted ==
    /\ main.pc = "submitted"
    /\ main' = [pc |-> "collecting",
                finished |-> {s \in Tasks : pc[s] = "returned"}]
    /\ UNCHANGED <<pvs_list, pc, page, all_shipments, valid_shipments, futures, yielded,
                   details_map, groups, idx, lines, saved, result, reqs, db,
                   all_messages, collected, completed, sent_count>>
    /\ UNCHANGED botvars

\* Mutant: the futures are handled in submission order.
YieldsInSubmissionOrder(s) ==
    /\ main.pc = "collecting"
    /\ pc[s] = "returned"
    /\ s = Len(collected) + 1

\* as_completed yields the future of task s next: one of those found finished
\* on entry, in no particular order, and after them the others in the order
\* in which they finish.
Yields(s) ==
    /\ main.pc = "collecting"
    /\ pc[s] = "returned"
    /\ s \notin Collected
    /\ IF main.finished \ Collected # {}
       THEN s \in main.finished
       ELSE \A k \in 1..Len(completed) :
               completed[k] \notin Collected =>
                   \E l \in 1..k : completed[l] = s

\* Mutant: only reports are appended to the message list.
CollectReportsOnly(s) ==
    /\ Yields(s)
    /\ collected' = Append(collected, s)
    /\ all_messages' = IF result[s].kind = "error" THEN all_messages
                       ELSE Append(all_messages, MessageOf(pvs_list[s], result[s]))
    /\ UNCHANGED <<pvs_list, pc, page, all_shipments, valid_shipments, futures, yielded,
                   details_map, groups, idx, lines, saved, result, reqs, db,
                   completed, main, sent_count>>
    /\ UNCHANGED botvars

\* One iteration of the as_completed loop: the message of the yielded task is
\* appended.
Collect(s) ==
    /\ Yields(s)
    /\ collected' = Append(collected, s)
    /\ all_messages' = Append(all_messages, MessageOf(pvs_list[s], result[s]))
    /\ UNCHANGED <<pvs_list, pc, page, all_shipments, valid_shipments, futures, yielded,
                   details_map, groups, idx, lines, saved, result, reqs, db,
                   completed, main, sent_count>>
    /\ UNCHANGED botvars

\* for msg in all_messages: send_telegram_message(msg), after the pool of
\* the with block has shut down.
SendMessage ==
    /\ Collected = Tasks
    /\ sent_count < Len(all_messages)
    /\ sent_count' = sent_count + 1
    /\ UNCHANGED <<pvs_list, pc, page, all_shipments, valid_shipments, futures, yielded,
                   details_map, groups, idx, lines, saved, result, reqs, db,
                   all_messages, collected, completed, main>>
    /\ UNCHANGED botvars

\* The state when the tasks have been submitted.
InitPipeline(sources) ==
    /\ pvs_list \in sources
    /\ pc = [s \in Tasks |-> "login"]
    /\ page = [s \in Tasks |-> 0]
    /\ all_shipments = [s \in Tasks |-> <<>>]
    /\ valid_shipments = [s \in Tasks |-> <<>>]
    /\ futures = [s \in Tasks |-> <<>>]
    /\ yielded = [s \in Tasks |-> {}]
    /\ details_map = [s \in Tasks |-> <<>>]
    /\ groups = [s \in Tasks |-> <<>>]
    /\ idx = [s \in Tasks |-> 0]
    /\ lines = [s \in Tasks |-> <<>>]
    /\ saved = [s \in Tasks |-> <<>>]
    /\ result = [s \in Tasks |-> NoResult]
    /\ reqs = [s \in Tasks |-> NoReqs]
    /\ db = {}
    /\ all_messages = <<>>
    /\ collected = <<>>
    /\ completed = <<>>
    /\ main = [pc |-> "submitted", finished |-> {}]
    /\ sent_count = 0

\* Both programs at their start, the bot without subscriptions.
InitWith(sources) == InitPipeline(sources) /\ BotIdle

----------------------------------------------------------------------------
(* The environment: what the sources, the database and the clock may answer *)

Row(created, id, url, status, closed_cell, unload) ==
    [created |-> created, id |-> id, detail_url |-> url, status |-> status,
     closed_cell |-> closed_cell, unload |-> unload, broken |-> FALSE]

\* A row of today lacking the status or unload-start cell.
BrokenRow == [Row(Ts(9 * HOUR), "a", "ua", "closed", Dash, Dash) EXCEPT !.broken = TRUE]

\* A row of today that parses, and one whose creation text starts with
\* today's date and does not parse.
GoodRow == Row(Ts(9 * HOUR), "a", "ua", "closed", Dash, Dash)
UnparsedRow == Row(Bad, "x", "ux", "closed", Dash, Dash)

\* All sequences over pool of length at most n.
SeqsUpTo(pool, n) == UNION {[1..k -> pool] : k \in 0..n}

\* A listing response: status 200 or not, the number of table rows, and the
\* rows of today among them (the others are skipped by the date filter).
\* A page is either short (only these rows) or holds SHORT_PAGE rows.
PageFail == [ok |-> FALSE, len |-> 0, rows |-> <<>>]
ShortPages(pool, n) ==
    {[ok |-> TRUE, len |-> Len(r), rows |-> r] : r \in SeqsUpTo(pool, n)}
FullPages(pool, n) ==
    {[ok |-> TRUE, len |-> SHORT_PAGE, rows |-> r] : r \in SeqsUpTo(pool, n)}

LoginOutcomes == {"ok", "unreachable", "rejected", "exception"}

DetailFail == [ok |-> FALSE, d |-> ZeroDetails]
DetailA == [ok |-> TRUE, d |-> [sent |-> 3, received |-> 2, excess |-> 1]]
DetailB == [ok |-> TRUE, d |-> [sent |-> 1, received |-> 0, excess |-> 0]]

NowPool == {12 * HOUR}

\* Creation times around the night/day border and the one-hour gap.
GroupTimes == {1 * HOUR, 8 * HOUR - 1, 8 * HOUR, 9 * HOUR, 9 * HOUR + 1, 10 * HOUR + 1}
GroupRows == {Row(Ts(t), "a", "ua", "closed", Dash, Dash) : t \in GroupTimes}

\* Rows of one arrival time: the three statuses of the portal, and a row of
\* another status without identifier and detail reference.
AggRows ==
    {Row(Ts(9 * HOUR), "a", "ua", st, Dash, Dash) :
        st \in {"pending", "in_progress", "closed"}}
    \cup {Row(Ts(9 * HOUR), PLACEHOLDER_ID, NoUrl, "on_hold", Dash, Dash)}

\* Rows and pages of the multi-source runs: a night row, a night row one
\* second later without detail reference whose unload-start text is
\* malformed; a failing request, a full page without a row of today, short
\* pages of one and two rows.
RunRowA == Row(Ts(7 * HOUR), "a", "ua", "closed", Ts(8 * HOUR), Ts(7 * HOUR))
RunRowB == Row(Ts(7 * HOUR + 1), PLACEHOLDER_ID, NoUrl, "closed", Dash, Bad)
RunPages ==
    {PageFail,
     [ok |-> TRUE, len |-> SHORT_PAGE, rows |-> <<>>],
     [ok |-> TRUE, len |-> 1, rows |-> <<RunRowA>>],
     [ok |-> TRUE, len |-> 2, rows |-> <<RunRowA, RunRowB>>]}

\* Rows of one arrival time differing in status and in the texts of the
\* close and unload-start cells: well-formed, placeholder, malformed.
TimeRows ==
    {Row(Ts(9 * HOUR), "a", "ua", "closed", Ts(11 * HOUR), Ts(10 * HOUR)),
     Row(Ts(9 * HOUR), "a", "ua", "closed", Ts(11 * HOUR + 1800), Dash),
     Row(Ts(9 * HOUR), "a", "ua", "closed", Dash, Ts(9 * HOUR + 1800)),
     Row(Ts(9 * HOUR), "a", "ua", "closed", Bad, Bad),
     Row(Ts(9 * HOUR), "a", "ua", "in_progress", Ts(11 * HOUR), Ts(10 * HOUR + 1)),
     Row(Ts(9 * HOUR), "a", "ua", "pending", Dash, Dash)}

\* The listing of the five-shipment day: two night shipments closed at 03:00
\* after an unload started at 02:15, three day shipments of one status; the
\* portal lists them latest first, or earliest first.
At(h, mi) == h * HOUR + mi * 60
ScenarioNight(h, mi, id) ==
    Row(Ts(At(h, mi)), id, "ua", "closed", Ts(At(3, 0)), Ts(At(2, 15)))
ScenarioDay(h, mi, id, st) == Row(Ts(At(h, mi)), id, "ua", st, Dash, Dash)
ScenarioRows(st) ==
    <<ScenarioDay(11, 0, "e", st), ScenarioDay(9, 40, "d", st), ScenarioDay(9, 0, "c", st),
      ScenarioNight(2, 50, "b"), ScenarioNight(2, 10, "a")>>
Reversed(rows) == [i \in 1..Len(rows) |-> rows[Len(rows) + 1 - i]]
ScenarioPages ==
    UNION {{[ok |-> TRUE, len |-> 5, rows |-> ScenarioRows(st)],
            [ok |-> TRUE, len |-> 5, rows |-> Reversed(ScenarioRows(st))]} :
           st \in {"pending", "in_progress", "closed"}}

\* The listing responses of a crawl over several pages: a failing request, a
\* page without table rows, and full and short pages whose rows of today
\* are none, a good row, an unparseable row, both, or hold a row that raises.
CrawlRows ==
    {<<>>, <<GoodRow>>, <<UnparsedRow>>, <<UnparsedRow, GoodRow>>,
     <<GoodRow, BrokenRow>>, <<BrokenRow, GoodRow>>}
CrawlPages ==
    {PageFail, [ok |-> TRUE, len |-> 0, rows |-> <<>>]}
    \cup {[ok |-> TRUE, len |-> SHORT_PAGE, rows |-> r] : r \in CrawlRows}
    \cup {[ok |-> TRUE, len |-> Len(r), rows |-> r] : r \in CrawlRows \ {<<>>}}

\* A short page of MaxFetches rows of today, more than the inner pool has
\* workers; every second row shares its identifier with its predecessor.
PoolRow(i) ==
    Row(Ts(9 * HOUR + i), IF i % 2 = 0 THEN "a" ELSE "b", "ua", "closed", Dash, Dash)
PoolPages ==
    {[ok |-> TRUE, len |-> MaxFetches, rows |-> [i \in 1..MaxFetches |-> PoolRow(i)]]}

\* Two readings of the wall clock.
Clock == {12 * HOUR, 12 * HOUR + 1}

\* The configured lists: the first MaxSources names.
SourceNames == <<"site1", "site2", "site3">>
SourceLists == {SubSeq(SourceNames, 1, k) : k \in 1..MaxSources}

----------------------------------------------------------------------------
(* Specifications *)

NextWith(logins, pages, resps, dbs, nows) ==
    \/ \E s \in Tasks, o \in logins : Login(s, o)
    \/ \E s \in Tasks, r \in pages : FetchPage(s, r)
    \/ \E s \in Tasks : \E i \in 1..Len(valid_shipments[s]), r \in resps :
          FinishFetch(s, i, r)
    \/ \E s \in Tasks : \E i \in 1..Len(valid_shipments[s]) : CollectFetch(s, i)
    \/ \E s \in Tasks : GroupShipments(s)
    \/ \E s \in Tasks, ok \in dbs, now \in nows : ReportGroup(s, ok, now)
    \/ \E s \in Tasks : ReturnReport(s)
    \/ EnterAsCompleted
    \/ \E s \in Tasks : Collect(s)
    \/ SendMessage

\* Runs of several sources.
Init == InitWith(SourceLists)
Next == NextWith(LoginOutcomes, RunPages, {DetailFail, DetailA}, BOOLEAN, NowPool)
Spec == Init /\ [][Next]_vars

\* One source, shipments spread over the day.
InitGroup == InitWith({<<"site1">>})
NextGroup == NextWith(LoginOutcomes, {PageFail} \cup ShortPages(GroupRows, MaxShipments),
                      {DetailA}, BOOLEAN, NowPool)
SpecGroup == InitGroup /\ [][NextGroup]_vars

\* One source, shipments differing in status, identifier and details.
NextAgg == NextWith(LoginOutcomes, {PageFail} \cup ShortPages(AggRows, MaxShipments),
                    {DetailFail, DetailA}, BOOLEAN, NowPool)
SpecAgg == InitGroup /\ [][NextAgg]_vars

\* One source, shipments differing in their close and unload-start texts,
\* reported at either reading of the clock.
NextTime == NextWith({"ok"}, {PageFail} \cup ShortPages(TimeRows, MaxShipments),
                     {DetailA}, BOOLEAN, Clock)
SpecTime == InitGroup /\ [][NextTime]_vars

\* One source, a crawl over several pages.
NextCrawl == NextWith({"ok"}, CrawlPages, {DetailA}, BOOLEAN, NowPool)
SpecCrawl == InitGroup /\ [][NextCrawl]_vars

\* One source, mixed statuses and time texts, a database that accepts every
\* insert.
NextPersist == NextWith({"ok"}, {PageFail} \cup ShortPages(TimeRows, MaxShipments),
                        {DetailA}, {TRUE}, NowPool)
SpecPersist == InitGroup /\ [][NextPersist]_vars

\* The callback data the chats send: every kind of button, a location that
\* is not configured, a slot outside the day, a removal in the wrong shape.
SlotPool == {SlotText(6), SlotText(21), SlotText(22)}
CallbackPool ==
    {Data(op, NoLoc, NoSlot) :
        op \in {"cancel", "no_subs", "page_choose", "page_remove", "other"}}
    \cup {Data("loc", l, NoSlot) : l \in {"location_a", "location_b", "nowhere"}}
    \cup {Data("time", NoLoc, sl) : sl \in SlotPool}
    \cup {Data("rm_single", "location_a", sl) : sl \in {SlotText(6), NoSlot}}

\* The keyboards that carry a button of this operation; data of no known
\* shape can be sent from any of them.
ButtonKinds(op) ==
    CASE op = "cancel" -> {"locations", "slots", "subscriptions"}
      [] op = "no_subs" -> {"empty"}
      [] op \in {"page_choose", "loc"} -> {"locations"}
      [] op = "time" -> {"slots"}
      [] op \in {"page_remove", "rm_single"} -> {"subscriptions"}
      [] OTHER -> {"locations", "slots", "subscriptions", "empty"}

\* A button is pressed in a chat where the bot has shown its keyboard; a
\* keyboard already replaced can still be pressed by a client that has not
\* seen the edit.
Pressable(c, data) == \E kind \in ButtonKinds(data.op) : <<c, kind>> \in keyboards

\* The bot's handlers under commands and callbacks from every user in every
\* chat, while the administrator edits the whitelist.
NextBot ==
    \/ \E p \in Senders : start(p[1], p[2])
    \/ \E p \in Senders : help_command(p[1], p[2])
    \/ \E p \in Senders : choose_location(p[1], p[2])
    \/ \E p \in Senders : remove_location(p[1], p[2])
    \/ \E p \in Senders : show_subscriptions(p[1], p[2])
    \/ \E p \in Senders, d \in CallbackPool, ok \in BOOLEAN :
          Pressable(p[2], d) /\ handle_callback(p[1], p[2], d, ok)
    \/ \E c \in Chats, member \in BOOLEAN : SetWhitelist(c, member)
SpecBot == InitGroup /\ [][NextBot]_vars

\* The subscriptions the monitor may find: two chats, two locations, the
\* slot of noon and one row of the next slot.
MonitorSubscriptions ==
    {Subscription("u1", "location_a", SlotText(12)),
     Subscription("u1", "location_b", SlotText(12)),
     Subscription("u2", "location_a", SlotText(12)),
     Subscription("u2", "location_b", SlotText(13))}

\* The hours at which the job fires: outside the reporting day, and noon.
HourPool == {5, 12}

\* One run of the hourly job while time passes and report rows arrive.
InitMonitor == InitPipeline({<<"site1">>}) /\ BotInitWith(SUBSET MonitorSubscriptions)
NextMonitor ==
    \/ Tick
    \/ \E loc \in LOCATIONS : ReportArrives(loc)
    \/ \E h \in HourPool : trigger_hourly_check(h)
    \/ MonitorCheck
    \/ \E c \in Chats, loc \in LOCATIONS, ok \in BOOLEAN : MonitorSend(c, loc, ok)
    \/ MonitorEndPass
    \/ MonitorWake
SpecMonitor == InitMonitor /\ [][NextMonitor]_vars

\* One source, more detail fetches than workers.
NextPool == NextWith({"ok"}, PoolPages, {DetailFail, DetailA}, {TRUE}, NowPool)
SpecPool == InitGroup /\ [][NextPool]_vars

\* One source on the five-shipment day.
NextScenario == NextWith({"ok"}, {PageFail} \cup ScenarioPages, {DetailFail, DetailA},
                         BOOLEAN, Clock)
SpecScenario == InitGroup /\ [][NextScenario]_vars

----------------------------------------------------------------------------
(* Properties: grouping *)

\* The grouping step of task s has run.
GroupsBuilt(s) == idx[s] > 0

\* The positions of the grouped shipments: <<group, place in the group>>.
Places(s) ==
    UNION {{<<g, j>> : j \in 1..Len(groups[s][g])} : g \in 1..Len(groups[s])}

UidsIn(s, g) == {groups[s][g][j].uid : j \in 1..Len(groups[s][g])}

SameGroup(s, a, b) ==
    \E g \in 1..Len(groups[s]) : a.uid \in UidsIn(s, g) /\ b.uid \in UidsIn(s, g)

\* Creation hour below 8 / from 8 on, as the claims state it.
NightTime(x) == x.created_dt < 8 * 3600
DayTime(x) == x.created_dt >= 8 * 3600

ShipmentsOf(s) == {all_shipments[s][i] : i \in 1..Len(all_shipments[s])}

\* C1: the groups of a source are non-empty, pairwise disjoint and cover the
\* valid shipments: every collected shipment stands at exactly one place of
\* exactly one group, and every place holds a collected shipment.
C1_GroupsPartition ==
    \A s \in Tasks : GroupsBuilt(s) =>
        /\ \A g \in 1..Len(groups[s]) : Len(groups[s][g]) > 0
        /\ \A x \in ShipmentsOf(s) :
              Cardinality({p \in Places(s) : groups[s][p[1]][p[2]].uid = x.uid}) = 1
        /\ \A p \in Places(s) :
              \E x \in ShipmentsOf(s) :
                  /\ groups[s][p[1]][p[2]].uid = x.uid
                  /\ groups[s][p[1]][p[2]].created_dt = x.created_dt

\* C1 witness: three shipments in two groups, one of them the night group.
C1_Witness ==
    \E s \in Tasks :
        /\ GroupsBuilt(s)
        /\ Len(all_shipments[s]) = 3
        /\ Len(groups[s]) = 2
        /\ \E x, y \in ShipmentsOf(s) : NightTime(x) /\ DayTime(y)

\* b follows a in ascending creation-time order among the day shipments, with
\* no day shipment strictly between them.
AdjacentDay(s, a, b) ==
    /\ a.uid # b.uid
    /\ DayTime(a) /\ DayTime(b)
    /\ a.created_dt <= b.created_dt
    /\ ~\E c \in ShipmentsOf(s) :
          a.created_dt < c.created_dt /\ c.created_dt < b.created_dt

\* C2: adjacent day shipments share a group exactly when their creation times
\* are at most one hour (3600 s) apart.
C2_DayRunsSplitAtGapOverOneHour ==
    \A s \in Tasks : GroupsBuilt(s) =>
        \A a, b \in ShipmentsOf(s) : AdjacentDay(s, a, b) =>
            (SameGroup(s, a, b) <=> b.created_dt - a.created_dt <= 3600)

\* C2 witness: a gap of exactly one hour kept together and a gap of one hour
\* and one second split, in the same run of the pipeline.
C2_Witness ==
    \E s \in Tasks :
        /\ GroupsBuilt(s)
        /\ \E a, b \in ShipmentsOf(s) :
              /\ AdjacentDay(s, a, b)
              /\ b.created_dt - a.created_dt = 3600
              /\ SameGroup(s, a, b)
        /\ \E a, b \in ShipmentsOf(s) :
              /\ AdjacentDay(s, a, b)
              /\ b.created_dt - a.created_dt = 3601
              /\ ~SameGroup(s, a, b)

\* The groups that hold a night shipment.
NightGroups(s) ==
    {g \in 1..Len(groups[s]) : \E j \in 1..Len(groups[s][g]) : NightTime(groups[s][g][j])}

\* C3: the night shipments form one single group whatever their gaps, that
\* group holds no day shipment, and there is no night group without a night
\* shipment.
C3_OneNightGroup ==
    \A s \in Tasks : GroupsBuilt(s) =>
        /\ Cardinality(NightGroups(s)) =
              IF \E x \in ShipmentsOf(s) : NightTime(x) THEN 1 ELSE 0
        /\ \A g \in NightGroups(s) :
              /\ \A j \in 1..Len(groups[s][g]) : NightTime(groups[s][g][j])
              /\ \A x \in ShipmentsOf(s) : NightTime(x) => x.uid \in UidsIn(s, g)

\* C3 witness: two night shipments more than one hour apart in one group,
\* beside a day shipment one second after the last of them.
C3_Witness ==
    \E s \in Tasks :
        /\ GroupsBuilt(s)
        /\ \E x, y, z \in ShipmentsOf(s) :
              /\ NightTime(x) /\ NightTime(y) /\ y.created_dt - x.created_dt > 3600
              /\ SameGroup(s, x, y)
              /\ DayTime(z) /\ z.created_dt - y.created_dt = 1
              /\ ~SameGroup(s, y, z)

\* The latest creation time among the members of a group.
LatestCreated(group) ==
    CHOOSE m \in {group[j].created_dt : j \in 1..Len(group)} :
        \A j \in 1..Len(group) : group[j].created_dt <= m

EarliestCreated(group) ==
    CHOOSE m \in {group[j].created_dt : j \in 1..Len(group)} :
        \A j \in 1..Len(group) : group[j].created_dt >= m

\* C10: the groups are in descending order of their latest member creation
\* time, block k of the report is "Group: k" and describes the k-th group, and
\* the row persisted with group_index k is the row of the k-th group.
C10_GroupsLatestFirst ==
    \A s \in Tasks : GroupsBuilt(s) =>
        /\ \A g, h \in 1..Len(groups[s]) :
              g < h => LatestCreated(groups[s][g]) >= LatestCreated(groups[s][h])
        /\ \A k \in 1..Len(lines[s]) :
              /\ lines[s][k].idx = k
              /\ lines[s][k].last_created = LatestCreated(groups[s][k]) \div 60
              /\ lines[s][k].boxes = Len(groups[s][k])
        /\ \A r \in db : r.task = s =>
              /\ r.group_index \in 1..Len(lines[s])
              /\ r.boxes_count = Len(groups[s][r.group_index])
              /\ r.created_at = EarliestCreated(groups[s][r.group_index])

\* C10 witness: three groups rendered and persisted, the night group last.
C10_Witness ==
    \E s \in Tasks :
        /\ Len(groups[s]) = 3
        /\ Len(lines[s]) = 3
        /\ \A k \in 1..3 : \E r \in db : r.task = s /\ r.group_index = k
        /\ NightTime(groups[s][3][1])
        /\ DayTime(groups[s][1][1])

----------------------------------------------------------------------------
(* Properties: aggregation *)

\* The group status the claim prescribes for a set of member statuses.
PrescribedStatus(group) ==
    LET sts == {group[j].status : j \in 1..Len(group)}
    IN CASE "in_progress" \in sts -> "in_progress"
         [] sts = {"pending"} -> "pending"
         [] OTHER -> "closed"

\* C4: the status shown in a group's block and the status persisted for it
\* are in_progress if a member is in_progress, else pending if all members
\* are pending, else closed.
C4_StatusPrecedence ==
    \A s \in Tasks :
        /\ \A k \in 1..Len(lines[s]) :
              lines[s][k].status = PrescribedStatus(groups[s][k])
        /\ \A r \in db : r.task = s =>
              r.status = PrescribedStatus(groups[s][r.group_index])

\* C4 witness: a group mixing pending and closed members, with no member in
\* progress, rendered and persisted as closed.
C4_Witness ==
    \E s \in Tasks : \E k \in 1..Len(lines[s]) :
        /\ \E j \in 1..Len(groups[s][k]) : groups[s][k][j].status = "pending"
        /\ \E j \in 1..Len(groups[s][k]) : groups[s][k][j].status = "closed"
        /\ \A j \in 1..Len(groups[s][k]) : groups[s][k][j].status # "in_progress"
        /\ lines[s][k].status = "closed"
        /\ \E r \in db : r.task = s /\ r.group_index = k /\ r.status = "closed"

RECURSIVE SeqSum(_)
SeqSum(ns) == IF ns = <<>> THEN 0 ELSE Head(ns) + SeqSum(Tail(ns))

SentOf(group) == SeqSum([j \in 1..Len(group) |-> group[j].sent])
ReceivedOf(group) == SeqSum([j \in 1..Len(group) |-> group[j].received])
ExcessOf(group) == SeqSum([j \in 1..Len(group) |-> group[j].excess])

\* C5: the totals of every rendered block and of every persisted row are the
\* sums of the enriched counts of the group's members.
C5_TotalsAreMemberSums ==
    \A s \in Tasks :
        /\ \A k \in 1..Len(lines[s]) :
              /\ lines[s][k].sent = SentOf(groups[s][k])
              /\ lines[s][k].received = ReceivedOf(groups[s][k])
              /\ lines[s][k].excess = ExcessOf(groups[s][k])
        /\ \A r \in db : r.task = s =>
              /\ r.sent = SentOf(groups[s][r.group_index])
              /\ r.received = ReceivedOf(groups[s][r.group_index])
              /\ r.excess = ExcessOf(groups[s][r.group_index])

\* C5 witness: a persisted group of a zero-filled member (its fetch failed)
\* and two members with counts.
C5_Witness ==
    \E s \in Tasks : \E k \in 1..Len(lines[s]) :
        /\ Len(groups[s][k]) = 3
        /\ \E i \in DOMAIN futures[s] :
              /\ futures[s][i].failed
              /\ valid_shipments[s][i].uid \in UidsIn(s, k)
              /\ valid_shipments[s][i].sent = 0
        /\ lines[s][k].sent = 6 /\ lines[s][k].received = 4 /\ lines[s][k].excess = 2
        /\ \E r \in db : r.task = s /\ r.group_index = k /\ r.sent = 6

\* C6: a shipment whose detail fetch failed, or that has no detail reference,
\* carries zero counts after enrichment, is a member of a group and is counted
\* in its block, and the pipeline returns a report.
C6_FailedFetchZeroFilled ==
    \A s \in Tasks : GroupsBuilt(s) =>
        /\ \A i \in 1..Len(valid_shipments[s]) : futures[s][i].failed =>
              /\ valid_shipments[s][i].sent = 0
              /\ valid_shipments[s][i].received = 0
              /\ valid_shipments[s][i].excess = 0
              /\ \E g \in 1..Len(groups[s]) : valid_shipments[s][i].uid \in UidsIn(s, g)
        /\ \A k \in 1..Len(lines[s]) : lines[s][k].boxes = Len(groups[s][k])
        /\ pc[s] = "returned" => result[s].kind = "report"

----------------------------------------------------------------------------
(* Properties: the run over all sources *)

\* Every thread that can take a step eventually takes one: requests carry
\* timeouts and no thread waits on another source's pipeline.
FairSpec == Spec /\ WF_vars(Next)

\* Message k is the message of the k-th collected task, no task is collected
\* twice, and only returned tasks are collected.
MessagesMatch ==
    /\ Len(all_messages) = Len(collected)
    /\ \A k, l \in 1..Len(collected) : k # l => collected[k] # collected[l]
    /\ \A k \in 1..Len(collected) :
          /\ collected[k] \in Tasks
          /\ pc[collected[k]] = "returned"
          /\ result[collected[k]].kind \in {"error", "report"}
          /\ all_messages[k].pvs = pvs_list[collected[k]]
          /\ all_messages[k].error = (result[collected[k]].kind = "error")
          /\ all_messages[k].text = result[collected[k]].text
          /\ all_messages[k].lines = result[collected[k]].lines

\* Every task has returned and been collected, and every message was sent.
RunComplete ==
    /\ \A s \in Tasks : pc[s] = "returned" /\ s \in Collected
    /\ Len(all_messages) = Len(pvs_list)
    /\ sent_count = Len(pvs_list)

\* C7: whatever fails in whichever source, the run ends, and the message list
\* then holds exactly one entry per configured source, its report or its
\* error; at no time does it hold two entries of one task.
C7_OneMessagePerSource == []MessagesMatch /\ <>[]RunComplete

\* C7 witness: a finished run of two sources, one that failed in the report
\* loop and one that returned a report.
C7_Witness ==
    /\ RunComplete
    /\ Len(pvs_list) = 2
    /\ \E k, l \in 1..2 :
          /\ all_messages[k].error /\ all_messages[k].text = "Critical error"
          /\ Len(groups[collected[k]]) > 0
          /\ ~all_messages[l].error /\ Len(all_messages[l].lines) > 0

\* The state of one task's pipeline, and the rows it has persisted.
Local(s) ==
    <<pc[s], page[s], all_shipments[s], valid_shipments[s], futures[s], yielded[s],
      details_map[s], groups[s], idx[s], lines[s], saved[s], result[s], reqs[s]>>
DbOf(s) == {r \in db : r.task = s}

\* Some step of task t's pipeline, under the answers the sources may give.
TaskStep(t) ==
    \/ \E o \in LoginOutcomes : Login(t, o)
    \/ \E r \in RunPages : FetchPage(t, r)
    \/ \E i \in 1..Len(valid_shipments[t]), r \in {DetailFail, DetailA} : FinishFetch(t, i, r)
    \/ \E i \in 1..Len(valid_shipments[t]) : CollectFetch(t, i)
    \/ GroupShipments(t)
    \/ \E ok \in BOOLEAN, now \in NowPool : ReportGroup(t, ok, now)
    \/ ReturnReport(t)

\* C8: a step that changes one task's pipeline state or persisted rows (a
\* failure included) changes no other task's pipeline state, persisted rows
\* or message, and a task that has not returned can always take its next
\* step whatever the other tasks have done.
C8_SourcesIsolated ==
    [][/\ \A s \in Tasks :
             (Local(s)' # Local(s) \/ DbOf(s)' # DbOf(s)) =>
                 /\ \A t \in Tasks \ {s} : Local(t)' = Local(t) /\ DbOf(t)' = DbOf(t)
                 /\ all_messages' = all_messages
       /\ \A k \in 1..Len(all_messages) : all_messages'[k] = all_messages[k]
       /\ \A t \in Tasks : pc[t] # "returned" => ENABLED TaskStep(t)]_vars

\* C8 witness: one source has failed, its sibling has returned a report with a
\* persisted group, and both messages are collected.
C8_Witness ==
    \E s, t \in Tasks :
        /\ result[s].kind = "error"
        /\ result[t].kind = "report"
        /\ DbOf(t) # {}
        /\ Collected = Tasks

\* C9: after a failed login (page not reachable, credentials rejected, or a
\* request raising) the task has returned an error, has requested no listing
\* page and no detail page, has built and persisted no group, has made the
\* login exchange once, and once collected has exactly one message, an error.
C9_LoginFailureStopsSource ==
    \A s \in Tasks : reqs[s].auth \in {"unreachable", "rejected", "exception"} =>
        /\ pc[s] = "returned"
        /\ result[s].kind = "error"
        /\ reqs[s].login <= 2
        /\ reqs[s].list = 0
        /\ reqs[s].detail = 0
        /\ all_shipments[s] = <<>> /\ futures[s] = <<>>
        /\ groups[s] = <<>> /\ lines[s] = <<>>
        /\ DbOf(s) = {}
        /\ Cardinality({k \in 1..Len(collected) : collected[k] = s}) <= 1
        /\ \A k \in 1..Len(collected) : collected[k] = s =>
              k <= Len(all_messages) /\ all_messages[k].error

\* C9 witness: a source whose credentials were rejected has its one error
\* entry collected beside the report of a sibling.
C9_Witness ==
    \E s, t \in Tasks :
        /\ reqs[s].auth = "rejected"
        /\ result[s].text = "Login failed"
        /\ s \in Collected /\ t \in Collected
        /\ result[t].kind = "report"
        /\ DbOf(t) # {}

----------------------------------------------------------------------------
(* Properties: timing of a group *)

SetMin(S) == CHOOSE m \in S : \A x \in S : m <= x
SetMax(S) == CHOOSE m \in S : \A x \in S : m >= x

\* The unload-start and close timestamps of the members that have one.
StartsOf(group) ==
    {group[j].unload_started_at.v :
        j \in {i \in 1..Len(group) : group[i].unload_started_at.k = "ts"}}
ClosesOf(group) ==
    {group[j].closed_at.v : j \in {i \in 1..Len(group) : group[i].closed_at.k = "ts"}}

\* The duration the claim prescribes for persistence.
PrescribedDuration(group) ==
    IF /\ PrescribedStatus(group) = "closed"
       /\ StartsOf(group) # {}
       /\ ClosesOf(group) # {}
    THEN SetMax(ClosesOf(group)) - SetMin(StartsOf(group))
    ELSE 0

\* C11: every call of save_group_to_db, and every row it inserted, carries
\* latest close - earliest unload-start in seconds when the group is closed
\* and has both, and 0 otherwise, at either reading of the clock.
C11_PersistedDuration ==
    \A s \in Tasks :
        /\ \A k \in 1..Len(saved[s]) :
              /\ saved[s][k].group_index = k
              /\ saved[s][k].unload_duration_seconds = PrescribedDuration(groups[s][k])
        /\ \A r \in db : r.task = s =>
              r.unload_duration_seconds = PrescribedDuration(groups[s][r.group_index])

\* C11 witness: saved calls of a closed group with both timestamps (5400 s),
\* and in the same state space groups that yield 0: a closed group without a
\* close timestamp, and an open group that has an unload-start.
C11_Witness ==
    \E s \in Tasks :
        /\ Len(saved[s]) = 1
        /\ Len(groups[s][1]) = 2
        /\ PrescribedStatus(groups[s][1]) = "closed"
        /\ StartsOf(groups[s][1]) = {9 * 3600 + 1800, 10 * 3600}
        /\ ClosesOf(groups[s][1]) = {11 * 3600}
        /\ saved[s][1].unload_duration_seconds = 5400
        /\ \E r \in db : r.task = s /\ r.unload_duration_seconds = 5400

\* C11 second witness case: an open group with an unload-start, saved with 0.
C11_WitnessOpen ==
    \E s \in Tasks :
        /\ Len(saved[s]) = 1
        /\ PrescribedStatus(groups[s][1]) = "in_progress"
        /\ StartsOf(groups[s][1]) # {}
        /\ saved[s][1].unload_duration_seconds = 0

\* The creation times of the members of a group, in member order.
CreatedOf(group) == [j \in 1..Len(group) |-> group[j].created_dt]

\* C12: on the five-shipment day the pipeline builds exactly three groups,
\* output as {11:00}, {09:00, 09:40}, {02:10, 02:50}; the night group is
\* reported closed with a duration of 2700 seconds, which is also the duration
\* handed to persistence, and the pipeline returns a report of three blocks.
C12_FiveShipmentDay ==
    \A s \in Tasks : GroupsBuilt(s) =>
        /\ Len(groups[s]) = 3
        /\ CreatedOf(groups[s][1]) = <<11 * 3600>>
        /\ CreatedOf(groups[s][2]) = <<9 * 3600, 9 * 3600 + 40 * 60>>
        /\ CreatedOf(groups[s][3]) = <<2 * 3600 + 10 * 60, 2 * 3600 + 50 * 60>>
        /\ Len(lines[s]) >= 3 =>
              /\ lines[s][3].status = "closed"
              /\ lines[s][3].duration = 2700
              /\ lines[s][3].boxes = 2
              /\ saved[s][3].unload_duration_seconds = 2700
        /\ \A r \in db : r.task = s /\ r.group_index = 3 =>
              r.status = "closed" /\ r.unload_duration_seconds = 2700
        /\ pc[s] = "returned" =>
              result[s].kind = "report" /\ Len(result[s].lines) = 3

\* C12 witness: the report of the day has been returned and the night group
\* persisted.
C12_Witness ==
    \E s \in Tasks :
        /\ Len(all_shipments[s]) = 5
        /\ pc[s] = "returned"
        /\ result[s].kind = "report"
        /\ Len(groups[s]) = 3
        /\ \E r \in db : r.task = s /\ r.group_index = 3 /\ r.unload_duration_seconds = 2700

\* The attributes of a block other than the rendered duration.
ClockFreePart(block) == [block EXCEPT !.duration = 0]

\* The group is closed and has an earliest unload-start and a latest close.
ClosedComplete(group) ==
    /\ PrescribedStatus(group) = "closed"
    /\ StartsOf(group) # {}
    /\ ClosesOf(group) # {}

\* C13 as stated: aggregating a rendered group again, at either reading of
\* the clock, yields the attributes of its block, the rendered duration
\* included.
C13_AggregationIgnoresClock ==
    \A s \in Tasks : \A k \in 1..Len(lines[s]) : \A now \in Clock :
        ReportBlock(k, groups[s][k], now) = lines[s][k]

\* C13 amended: aggregating a rendered group again, at either reading of the
\* clock, yields the same status, earliest unload-start, latest close, totals,
\* member count and persisted duration; the rendered duration is the same too
\* when the group is closed with both timestamps or has no unload-start, and
\* is otherwise the time from the earliest unload-start to that reading.
C13_AggregationClockFreeButOpenDuration ==
    \A s \in Tasks : \A k \in 1..Len(lines[s]) : \A now \in Clock :
        LET group == groups[s][k]
            again == ReportBlock(k, group, now)
        IN /\ ClockFreePart(again) = ClockFreePart(lines[s][k])
           /\ DurationSeconds(group) = saved[s][k].unload_duration_seconds
           /\ IF ClosedComplete(group) \/ StartsOf(group) = {}
              THEN again.duration = lines[s][k].duration
              ELSE /\ again.duration = now - SetMin(StartsOf(group))
                   /\ \E then \in Clock :
                         lines[s][k].duration = then - SetMin(StartsOf(group))

\* C13 witness: a rendered closed group with both timestamps, whose block is
\* recovered at both readings of the clock.
C13_Witness ==
    \E s \in Tasks :
        /\ Len(lines[s]) = 1
        /\ ClosedComplete(groups[s][1])
        /\ lines[s][1].duration = 3600
        /\ Cardinality(Clock) = 2
        /\ \A now \in Clock : ReportBlock(1, groups[s][1], now) = lines[s][1]

\* The group at which the report loop of a returned task stopped, if it
\* stopped before the last group.
StoppedAt(s) == Len(lines[s]) + 1
StoppedEarly(s) ==
    pc[s] = "returned" /\ GroupsBuilt(s) /\ Len(lines[s]) < Len(groups[s])

\* The earliest unload-start the claim prescribes.
PrescribedStart(group) ==
    IF StartsOf(group) = {} THEN None ELSE Some(SetMin(StartsOf(group)))

\* C14: the earliest unload-start of every rendered group is the minimum of
\* the members' unload-start timestamps, absent when there is none, and no
\* pipeline ends in an error at a group because its earliest unload-start
\* could not be derived.
C14_EarliestStartNeverFails ==
    \A s \in Tasks :
        /\ \A k \in 1..Len(lines[s]) :
              lines[s][k].unload_started = PrescribedStart(groups[s][k])
        /\ StoppedEarly(s) =>
              ~(/\ result[s].kind = "error"
                /\ CompareRaises(StartTimes(groups[s][StoppedAt(s)])))

\* The latest close the claim prescribes.
PrescribedClose(group) ==
    IF PrescribedStatus(group) = "closed" /\ ClosesOf(group) # {}
    THEN Some(SetMax(ClosesOf(group)))
    ELSE None

\* C15: the latest close of every rendered group is absent unless the group
\* is closed, and is then the maximum of the members' close timestamps (absent
\* when there is none); no pipeline ends in an error at a closed group, whose
\* earliest unload-start was derived, because its latest close could not be.
C15_LatestCloseOfClosedGroups ==
    \A s \in Tasks :
        /\ \A k \in 1..Len(lines[s]) :
              lines[s][k].closed_at = PrescribedClose(groups[s][k])
        /\ StoppedEarly(s) =>
              ~(/\ result[s].kind = "error"
                /\ ~CompareRaises(StartTimes(groups[s][StoppedAt(s)]))
                /\ PrescribedStatus(groups[s][StoppedAt(s)]) = "closed"
                /\ CompareRaises(CloseTimes(groups[s][StoppedAt(s)])))

----------------------------------------------------------------------------
(* Properties: the crawl *)

IdsOf(shipments) == [j \in 1..Len(shipments) |-> shipments[j].id]

Parses(row) == row.created.k = "ts"
Raising(rows) == \E j \in 1..Len(rows) : rows[j].broken

\* A listing request of task s is answered in this step.
Requests(s) == reqs'[s].list # reqs[s].list

\* C16: the k-th listing request of a source asks for page k, and the crawl
\* moves on to page n+1 only after a response for page n with status 200, at
\* least one table row, at least 20 table rows and, for n > 1, at least one
\* newly accepted row of today; the accepted rows of a short page are
\* collected by the step that ends the enumeration.
C16_PagesConsecutiveUntilShortOrStale ==
    [][\A s \in Tasks :
          /\ Requests(s) =>
                /\ reqs'[s].list = reqs[s].list + 1
                /\ pc[s] = "crawl"
                /\ page[s] = reqs[s].list + 1
          /\ (pc[s] = "crawl" /\ page'[s] # page[s]) =>
                /\ page'[s] = page[s] + 1
                /\ Requests(s)
                /\ \E r \in CrawlPages :
                      /\ FetchPage(s, r)
                      /\ r.ok /\ r.len >= 1 /\ r.len >= 20
                      /\ page[s] > 1 => Len(all_shipments'[s]) > Len(all_shipments[s])
                /\ \A r \in CrawlPages :
                      FetchPage(s, r) =>
                          /\ r.ok /\ r.len >= 1 /\ r.len >= 20
                          /\ page[s] > 1 => \E j \in 1..Len(r.rows) : Parses(r.rows[j])
          /\ \A r \in CrawlPages :
                (FetchPage(s, r) /\ r.ok /\ r.len < 20 /\ ~Raising(r.rows)) =>
                    /\ pc'[s] # "crawl"
                    /\ IdsOf(all_shipments'[s]) =
                          IdsOf(all_shipments[s]) \o IdsOf(SelectSeq(r.rows, Parses))
      ]_vars

\* C16 witness: three pages requested, a row accepted from each of the two
\* full pages and from the short third page, which ended the enumeration.
C16_Witness ==
    \E s \in Tasks :
        /\ reqs[s].list = 3
        /\ page[s] = 3
        /\ reqs[s].last = "ok"
        /\ Len(all_shipments[s]) = 3
        /\ pc[s] = "fetch"

\* The shipments in the groups of task s are the shipments the crawl collected.
ReportCoversCollected(s) ==
    /\ GroupsBuilt(s) =>
          UNION {UidsIn(s, g) : g \in 1..Len(groups[s])} =
              {all_shipments[s][j].uid : j \in 1..Len(all_shipments[s])}
    /\ pc[s] = "returned" =>
          /\ result[s].kind = "report"
          /\ SeqSum([k \in 1..Len(result[s].lines) |-> result[s].lines[k].boxes]) =
                Len(all_shipments[s])

\* The enumeration of task s ended on a request that failed or on a row that
\* raised.
CrawlFailed(s) == reqs[s].last \in {"failed", "raised"}

\* Nothing was grouped or persisted for task s.
NothingBuilt(s) ==
    /\ valid_shipments[s] = <<>> /\ futures[s] = <<>>
    /\ groups[s] = <<>> /\ lines[s] = <<>> /\ saved[s] = <<>>
    /\ DbOf(s) = {}

UnparsedRowsHarmless ==
    \A s \in Tasks :
        /\ \A j \in 1..Len(all_shipments[s]) : all_shipments[s][j].id # UnparsedRow.id
        /\ \A p \in Places(s) : groups[s][p[1]][p[2]].id # UnparsedRow.id
        /\ (pc[s] = "returned" /\ result[s].kind = "error") => all_shipments[s] = <<>>
        /\ (pc[s] = "returned" /\ all_shipments[s] # <<>>) => ReportCoversCollected(s)

\* C18: a row of today whose creation text does not parse is in no group and
\* fails nothing: the parseable rows of its page are collected, a full page
\* holding it is followed by the next page like any full page with a row of
\* today, and a source errs only when it collected no shipment.
C18_UnparsedRowsDropped ==
    /\ []UnparsedRowsHarmless
    /\ [][\A s \in Tasks : \A r \in CrawlPages :
              (FetchPage(s, r) /\ r.ok /\ ~Raising(r.rows)) =>
                  /\ IdsOf(all_shipments'[s]) =
                        IdsOf(all_shipments[s]) \o IdsOf(SelectSeq(r.rows, Parses))
                  /\ reqs'[s].dropped - reqs[s].dropped =
                        Len(r.rows) - Len(SelectSeq(r.rows, Parses))
                  /\ (r.len >= 20 /\ (page[s] = 1 \/ r.rows # <<>>)) =>
                        pc'[s] = "crawl" /\ page'[s] = page[s] + 1
      ]_vars

----------------------------------------------------------------------------
(* Properties: the two thread pools *)

\* The place of task s in the completion order.
CompletedAt(s) == CHOOSE k \in 1..Len(completed) : completed[k] = s

\* Nothing is sent before every task has returned and been collected, and
\* message k is the message of the k-th yielded task.
SentAfterAll ==
    /\ sent_count > 0 => \A s \in Tasks : pc[s] = "returned" /\ s \in Collected
    /\ sent_count <= Len(all_messages)
    /\ Len(all_messages) = Len(collected)
    /\ \A k \in 1..Len(collected) :
          all_messages[k] = MessageOf(pvs_list[collected[k]], result[collected[k]])

\* C19 as stated: nothing is sent before every task has completed, and the
\* messages stand, and are sent, in the order in which the tasks completed.
C19_SentAfterAllInCompletionOrder ==
    /\ SentAfterAll
    /\ \A k \in 1..Len(collected) : collected[k] = completed[k]

\* C19 amended: nothing is sent before every task has completed, and the
\* messages are sent in the order in which as_completed yielded the tasks:
\* first the tasks already completed when the main thread entered the loop,
\* in any order, then the others in the order in which they completed.
C19_SentAfterAllInYieldOrder ==
    /\ SentAfterAll
    /\ \A k, l \in 1..Len(collected) : k < l =>
          /\ collected[l] \in main.finished => collected[k] \in main.finished
          /\ (collected[k] \notin main.finished /\ collected[l] \notin main.finished) =>
                CompletedAt(collected[k]) < CompletedAt(collected[l])

\* C19 witness: both messages sent, the second source's first: it completed
\* first, after the main thread had entered the loop.
C19_Witness ==
    /\ Len(pvs_list) = 2
    /\ sent_count = 2
    /\ main.finished = {}
    /\ completed = <<2, 1>>
    /\ collected = <<2, 1>>
    /\ all_messages[1].pvs = pvs_list[2]

\* The detail fetches of task s that have not finished.
Unfinished(s) == {i \in 1..Len(valid_shipments[s]) : i \notin DOMAIN futures[s]}

\* The identifiers whose details the pipeline thread has stored.
StoredIds(s) == {futures[s][i].id : i \in yielded[s]}

PoolInvariant ==
    \A s \in Tasks :
        /\ DOMAIN futures[s] \subseteq 1..Len(valid_shipments[s])
        /\ yielded[s] \subseteq DOMAIN futures[s]
        /\ \A i \in DOMAIN futures[s] : futures[s][i].id = valid_shipments[s][i].id
        /\ reqs[s].detail =
              Cardinality({i \in DOMAIN futures[s] : valid_shipments[s][i].detail_url # NoUrl})
        /\ Cardinality(InFlight(s)) <= 5
        /\ Cardinality(Unfinished(s)) > 5 => Cardinality(InFlight(s)) = 5
        /\ DOMAIN details_map[s] = StoredIds(s)
        /\ GroupsBuilt(s) =>
              /\ DOMAIN futures[s] = 1..Len(valid_shipments[s])
              /\ yielded[s] = 1..Len(valid_shipments[s])

\* C20: every valid shipment has one detail fetch, which finishes once; a
\* fetch finishes only while fewer than 5 fetches submitted before it are
\* unfinished, so at most 5 are in flight; grouping starts when all have
\* finished and been collected; the results map changes only in a step of
\* the pipeline thread that collects one finished fetch, and never in a
\* step in which a worker finishes.
C20_DetailPoolBoundedSingleWriter ==
    /\ []PoolInvariant
    /\ [][\A s \in Tasks :
              /\ futures'[s] # futures[s] =>
                    /\ \E i \in Unfinished(s) :
                          /\ DOMAIN futures'[s] = DOMAIN futures[s] \cup {i}
                          /\ Cardinality({j \in Unfinished(s) : j < i}) < 5
                    /\ \A i \in DOMAIN futures[s] : futures'[s][i] = futures[s][i]
                    /\ details_map'[s] = details_map[s]
                    /\ yielded'[s] = yielded[s]
              /\ (details_map'[s] # details_map[s] \/ yielded'[s] # yielded[s]) =>
                    /\ futures'[s] = futures[s]
                    /\ \E i \in DOMAIN futures[s] \ yielded[s] :
                          /\ yielded'[s] = yielded[s] \cup {i}
                          /\ details_map'[s] =
                                (futures[s][i].id :> futures[s][i].details) @@ details_map[s]
      ]_vars

\* C20 witness: six fetches for five workers; the second has finished and
\* been collected, which let the sixth start beside the four others.
C20_Witness ==
    \E s \in Tasks :
        /\ Len(valid_shipments[s]) = 6
        /\ DOMAIN futures[s] = {2}
        /\ yielded[s] = {2}
        /\ DOMAIN details_map[s] = {valid_shipments[s][2].id}
        /\ InFlight(s) = {1, 3, 4, 5, 6}

----------------------------------------------------------------------------
(* Properties: persistence *)

\* The calls of save_group_to_db made so far by task s are one per rendered
\* group, in group order.
SavedInGroupOrder(s) ==
    /\ Len(saved[s]) = Len(lines[s])
    /\ Len(saved[s]) <= Len(groups[s])
    /\ \A k \in 1..Len(saved[s]) :
          /\ saved[s][k].group_index = k
          /\ saved[s][k].count = Len(groups[s][k])
          /\ lines[s][k].idx = k

\* C21: in a source run that built groups, save_group_to_db is called once
\* for every group, in group order, whether or not an earlier insert failed,
\* and the run returns a report with one block for every group.
C21_EveryGroupPersistedOnce ==
    \A s \in Tasks : GroupsBuilt(s) =>
        /\ SavedInGroupOrder(s)
        /\ pc[s] = "returned" =>
              /\ Len(saved[s]) = Len(groups[s])
              /\ result[s].kind = "report"
              /\ Len(result[s].lines) = Len(groups[s])

\* The rows persisted for group k of task s.
RecordsOf(s, k) == {r \in db : r.task = s /\ r.group_index = k}

\* C22: every group rendered in the report of a source has a persisted
\* record with the status, the unload start and the close time of its block.
C22_RecordAgreesWithBlock ==
    \A s \in Tasks : \A k \in 1..Len(lines[s]) :
        \E r \in RecordsOf(s, k) :
            /\ r.status = lines[s][k].status
            /\ r.unload_started_at = lines[s][k].unload_started
            /\ r.closed_at = lines[s][k].closed_at

----------------------------------------------------------------------------
(* Properties: enrichment *)

\* The counts shipment i of task s carries are those of its own fetch.
OwnCounts(s, i) ==
    /\ valid_shipments[s][i].sent = futures[s][i].details.sent
    /\ valid_shipments[s][i].received = futures[s][i].details.received
    /\ valid_shipments[s][i].excess = futures[s][i].details.excess

\* C23: after enrichment every shipment carries the counts returned by the
\* detail fetch dispatched for that shipment, zeros if that fetch failed,
\* whatever the completion order and whatever identifiers the shipments share.
C23_EnrichedWithOwnFetch ==
    \A s \in Tasks : GroupsBuilt(s) =>
        \A i \in 1..Len(valid_shipments[s]) :
            /\ OwnCounts(s, i)
            /\ futures[s][i].failed => valid_shipments[s][i].sent = 0

----------------------------------------------------------------------------
(* Properties: the subscription bot *)

\* One of the hourly slots 6:00-7:00 ... 21:00-22:00.
HourlySlot(slot) == \E h \in 6..21 : slot = <<h, h + 1>>

\* Every insert was made for a chat whitelisted at that moment, with a
\* configured location that the chat had selected and an hourly slot, and
\* every subscription in the table was inserted by the bot.
InsertsLegitimate ==
    /\ \A e \in inserts :
          /\ e.whitelisted
          /\ e.row.location_name \in {"location_a", "location_b", "location_c"}
          /\ HourlySlot(e.row.time_slot)
          /\ e.selected
    /\ \A r \in user_subscriptions : \E e \in inserts : e.row = r

\* C24: after any sequence of commands and callbacks from any chats, every
\* subscription the bot inserted belongs to a chat whitelisted at the
\* insert, has a configured location and an hourly slot between 6:00 and
\* 22:00, and was inserted after that chat selected that location; a
\* callback from a chat that is not whitelisted inserts and deletes nothing.
C24_SubscriptionsLegitimate ==
    /\ []InsertsLegitimate
    /\ [][\A p \in Senders, d \in CallbackPool, ok \in BOOLEAN :
              (Pressable(p[2], d) /\ handle_callback(p[1], p[2], d, ok)
                  /\ p[2] \notin whitelist) =>
                  user_subscriptions' = user_subscriptions]_vars

\* The reports the run has sent, and how often it sent one to a pair.
Delivered == {delivered[k] : k \in 1..Len(delivered)}
TimesDelivered(p) == Cardinality({k \in 1..Len(delivered) : delivered[k] = p})

\* The hour has ended and the monitor loop has stopped.
RunOver == wall = MaxTicks /\ mon.pc = "done"

\* When the run is over and no send has failed, every subscribed pair of
\* the slot whose location got a report row during the hour has been sent
\* its report; no pair is ever sent a report twice.
SlotServed ==
    /\ (RunOver /\ mon.failed = {}) =>
          \A r \in user_subscriptions :
              (r.time_slot = <<mon.hour, mon.hour + 1>>
                  /\ r.location_name \in data_reports) =>
                  <<r.chat_id, r.location_name>> \in Delivered
    /\ \A p \in Delivered : TimesDelivered(p) = 1

\* C25: in one run of the hourly slot monitor every (chat, location)
\* subscription of the slot whose location gets a report row of the hour
\* before the hour ends is sent that location's report, no pair is sent a
\* report more than once, and no pass of the loop begins after the hour.
C25_SlotSubscribersServed ==
    /\ []SlotServed
    /\ [][(mon.pc = "check" /\ mon'.pc = "pass") => wall < MaxTicks]_vars

====
